---- MODULE Spec2Model ----
(***************************************************************************)
(* A model of package amt (Hash Array Mapped Trie, github.com/wdamron/amt). *)
(*                                                                         *)
(* One container is modelled.  Its variant (StringMap, BytesMap, IntMap,   *)
(* ArrMap, generic Map, StringSet, BytesSet, IntSet, generic Set), its     *)
(* hash seed and the keys and values its client uses are fixed by Init; the           *)
(* operations are translated from the variant's own source where the       *)
(* variants differ.                                                        *)
(*                                                                         *)
(* Encoding.                                                               *)
(*  - A 32-bit word (pmap, tmap) is the set of its one-bits (0..31).        *)
(*  - A key is the set of one-bits of its 64-bit / byte content, so that    *)
(*    the inline key of IntMap/IntSet is split into and rebuilt from the    *)
(*    two words exactly as the code does.                                   *)
(*  - A 64-bit hash word is never materialised: a hash value is the triple  *)
(*    key, number of Writes fed to the maphash, nibbles shifted out.        *)
(*  - A link array is the sequence of its cells (length = capacity); a      *)
(*    pointer to a link is the sequence of cell indexes leading to it.      *)
(*  - A pointer to a key-value record is the record itself (tag "kv").      *)
(*  - Ptr, Get, Has and All change nothing: they are operators on the       *)
(*    container, evaluated in the states the other operations reach.        *)
(***************************************************************************)
EXTENDS Integers, Sequences, FiniteSets, TLC

\* ---- bounds of the model ----
MaxVal == 2
MaxDepth == 40
MaxAllocs == 2
MaxIter == 257

\* ---- program constants ----
RootCap == 16
PathCap == 12
HashLevels == 16
ByteWrap == 256

Variants == {"StringMap", "BytesMap", "IntMap", "ArrMap", "Map",
             "StringSet", "BytesSet", "IntSet", "Set"}
MapVariants == {"StringMap", "BytesMap", "IntMap", "ArrMap", "Map"}
IntVariants == {"IntMap", "IntSet"}
GenericVariants == {"Map", "Set"}
IsMap(var) == var \in MapVariants
IsInt(var) == var \in IntVariants
IsGeneric(var) == var \in GenericVariants

Seeds == {0}
KeyIds == 1..11
Vals == 1..MaxVal

\* The content of the keys used: as a 64-bit integer, key 5 is 2^35 + 5,
\* key 6 is -1 (all ones) and key 7 is 2^32; the others are 0..3 (keys 1..4)
\* and 4..7 (keys 8..11).
KeyVal(n) ==
  CASE n = 1 -> {}
    [] n = 2 -> {0}
    [] n = 3 -> {1}
    [] n = 4 -> {0, 1}
    [] n = 5 -> {0, 2, 35}
    [] n = 6 -> 0..63
    [] n = 7 -> {32}
    [] n = 8 -> {2}
    [] n = 9 -> {0, 2}
    [] n = 10 -> {1, 2}
    [] n = 11 -> {0, 1, 2}
Keys == {KeyVal(n) : n \in KeyIds}
IdOf(key) == IF key \in Keys THEN CHOOSE n \in KeyIds : KeyVal(n) = key ELSE 0

\* What one client of the container uses, keys and values: keys 2 and 3 collide
\* at the root only; 5 and 6 collide below the root and for all sixteen
\* nibbles of their first hash; 2, 3, 4, 5 and 7 make five slots of one branch;
\* 1, 8, 9, 10 and 11 make five slots of the root.
\* dep is the largest sum of leaf depths a trie of these keys has.
Clients == {[keys |-> {KeyVal(1), KeyVal(2), KeyVal(3)}, vals |-> Vals, dep |-> 2],
            [keys |-> {KeyVal(2), KeyVal(5), KeyVal(6)}, vals |-> {MaxVal}, dep |-> 35],
            [keys |-> {KeyVal(2), KeyVal(3), KeyVal(4), KeyVal(5), KeyVal(7)},
             vals |-> {MaxVal}, dep |-> 5],
            [keys |-> {KeyVal(1), KeyVal(8), KeyVal(9), KeyVal(10), KeyVal(11)},
             vals |-> {MaxVal}, dep |-> 0]}

\* "uint32(key)", "uint32(key >> 32)" and "IntKey(pmap) | IntKey(tmap) << 32"
Lo(key) == {b \in key : b < 32}
Hi(key) == {b - 32 : b \in {c \in key : c >= 32}}
InlineKey(pmap, tmap) == pmap \cup {b + 32 : b \in tmap}

\* ---- hashing ----
\* The nibbles of the hash of a key after w Writes (or the generic key's
\* Hash(seed, w - 1)): a fixed function, chosen to collide as said above.
HashPrefix(n) ==
  CASE n = 1 -> <<5>>
    [] n = 2 -> <<2, 1>>
    [] n = 3 -> <<2, 4>>
    [] n = 4 -> <<2, 7>>
    [] n = 5 -> <<2, 9>>
    [] n = 6 -> <<2, 9>>
    [] n = 7 -> <<2, 12>>
    [] n = 8 -> <<7>>
    [] n = 9 -> <<9>>
    [] n = 10 -> <<11>>
    [] n = 11 -> <<13>>
    [] OTHER -> <<>>
HashFill(n) == IF n \in {5, 6} THEN 3 ELSE n
\* the seed's part in a nibble
SeedMix(sd, raw) == IF sd = 0 THEN raw ELSE 15 - raw
\* nibble i of the hash of key number n (0: not one of Keys; card: its bit count)
NibbleOf(sd, n, card, w, i) ==
  SeedMix(sd, IF n = 0 THEN (card + w + i) % 16
              ELSE IF w = 1
              THEN (IF i < Len(HashPrefix(n)) THEN HashPrefix(n)[i + 1] ELSE HashFill(n))
              ELSE (n + w + i) % 16)
HashNibble(sd, key, w, i) == NibbleOf(sd, IdOf(key), Cardinality(key), w, i)

HashVal(key, w, sh) == [key |-> key, w |-> w, sh |-> sh]
\* "uint8(hd & 0xF)"; a word shifted by sixteen nibbles or more is zero
Radix(sd, hd) == IF hd.sh >= HashLevels THEN 0 ELSE HashNibble(sd, hd.key, hd.w, hd.sh)
Shr4(hd) == [hd EXCEPT !.sh = @ + 1]
ShrN(hd, n) == [hd EXCEPT !.sh = @ + n]
\* key.Hash(seed, iter), or the Sum64 after iter + 1 Writes of the key
KeyHash(key, iter) == HashVal(key, iter + 1, 0)
\* the hash value at depth d, entered from depth d - 1
NextHash(var, hd, d) ==
  IF d % HashLevels # 0 THEN Shr4(hd)
  ELSE IF IsGeneric(var) THEN KeyHash(hd.key, d \div HashLevels)
  ELSE HashVal(hd.key, hd.w + 1, 0)

\* ---- memory ----
NilPtr == [tag |-> "nil", cells |-> <<>>, k |-> {}, v |-> 0]
ArrPtr(cells) == [tag |-> "arr", cells |-> cells, k |-> {}, v |-> 0]
\* a key-value record; aliased: its client keeps a pointer to its value
KvPtr(key, value) ==
  [tag |-> "kv", cells |-> <<>>, k |-> key, v |-> value, aliased |-> FALSE]
ZeroLink == [ptr |-> NilPtr, pmap |-> {}, tmap |-> {}]
NilRef == <<-1>>

newLinkArray(capacity) ==
  LET cap == IF capacity <= 4 THEN 4 ELSE IF capacity <= 8 THEN 8
             ELSE IF capacity <= 12 THEN 12 ELSE 16
  IN ArrPtr([i \in 1..cap |-> ZeroLink])

newRoot(var, sd) ==
  [variant |-> var, seed |-> sd,
   root |-> [ptr |-> ArrPtr([i \in 1..RootCap |-> ZeroLink]), pmap |-> {}, tmap |-> {}],
   len |-> 0, dep |-> 0, fault |-> FALSE,
   path |-> [i \in 1..PathCap |-> [radix |-> 0, link |-> NilRef]]]

RECURSIVE LinkAt(_, _)
LinkAt(l, pos) == IF pos = <<>> THEN l ELSE LinkAt(l.ptr.cells[Head(pos) + 1], Tail(pos))
RECURSIVE SetLinkAt(_, _, _)
SetLinkAt(l, pos, new) ==
  IF pos = <<>> THEN new
  ELSE [l EXCEPT !.ptr.cells[Head(pos) + 1] = SetLinkAt(@, Tail(pos), new)]

\* ---- the walk shared by every operation ----
\* "bits.OnesCount32(l.pmap &^ (^uint32(0) << radix))"
IndexOf(pmap, radix) == Cardinality({b \in pmap : b < radix})
\* the key of a leaf: inline in the two words (IntMap, IntSet), else in its record
LeafKey(m, item) ==
  IF IsInt(m.variant) THEN InlineKey(item.pmap, item.tmap) ELSE item.ptr.k
\* whether reading the leaf's key dereferences a key-value record
LeafReadable(m, item) == IsInt(m.variant) \/ item.ptr.tag = "kv"

\* where a walk ended: at link pos (depth d, hash value hd), slot radix, cell idx;
\* kind is "missing" (absent slot), "leaf" (item is the leaf) or "fault"; trail
\* is what Del has appended to its path.
WalkResult(kind, pos, d, hd, radix, idx, item, trail) ==
  [kind |-> kind, pos |-> pos, d |-> d, hd |-> hd, radix |-> radix, idx |-> idx,
   item |-> item, trail |-> trail]

\* "for l.pmap&bit != 0 { ... if l.tmap&bit == 0 { traverse branch; continue } ..."
RECURSIVE WalkFrom(_, _, _, _, _, _)
WalkItem(m, l, pos, d, hd, trail, radix, idx) ==
  IF radix \notin l.pmap
  THEN WalkResult("missing", pos, d, hd, radix, idx, ZeroLink, trail)
  ELSE IF l.ptr.tag # "arr" \/ idx + 1 > Len(l.ptr.cells)
  THEN WalkResult("fault", pos, d, hd, radix, idx, ZeroLink, trail)
  ELSE IF radix \notin l.tmap
  THEN WalkFrom(m, l.ptr.cells[idx + 1], Append(pos, idx), (d + 1) % ByteWrap,
                NextHash(m.variant, hd, (d + 1) % ByteWrap),
                Append(trail, [radix |-> radix, link |-> pos]))
  ELSE WalkResult(IF LeafReadable(m, l.ptr.cells[idx + 1]) THEN "leaf" ELSE "fault",
                  pos, d, hd, radix, idx, l.ptr.cells[idx + 1],
                  Append(trail, [radix |-> radix, link |-> pos]))
WalkSlot(m, l, pos, d, hd, trail, radix) ==
  WalkItem(m, l, pos, d, hd, trail, radix, IndexOf(l.pmap, radix))
WalkFrom(m, l, pos, d, hd, trail) ==
  WalkSlot(m, l, pos, d, hd, trail, Radix(m.seed, hd))
Walk(m, key) == WalkFrom(m, m.root, <<>>, 0, KeyHash(key, 0), <<>>)

\* ---- Ptr, Get, Has ----
Found(m, key, w) == w.kind = "leaf" /\ LeafKey(m, w.item) = key
PtrAt(m, key, w) == IF Found(m, key, w) THEN Append(w.pos, w.idx) ELSE NilRef
\* Ptr(key): the cell whose record holds the value, or nil
Ptr(m, key) == PtrAt(m, key, Walk(m, key))
\* Get(key): "if v := m.Ptr(key); v != nil { return *v, true }"
Deref(m, p) ==
  IF p = NilRef THEN [value |-> 0, ok |-> FALSE]
  ELSE [value |-> LinkAt(m.root, p).ptr.v, ok |-> TRUE]
Get(m, key) == Deref(m, Ptr(m, key))
\* Has(key) of the set variants
Has(m, key) == Found(m, key, Walk(m, key))

\* "return &kv.v": the caller keeps the pointer Ptr has returned
AliasAt(m, p) == [m EXCEPT !.root = SetLinkAt(m.root, p, [LinkAt(m.root, p) EXCEPT
                                                          !.ptr.aliased = TRUE])]
\* "*p = value" for the pointer the caller has kept: the record it points to
\* gets the value, wherever the record is linked now
RECURSIVE WriteAliasedIn(_, _)
WriteAliasedIn(l, value) ==
  IF l.ptr.tag = "kv" THEN (IF l.ptr.aliased THEN [l EXCEPT !.ptr.v = value] ELSE l)
  ELSE IF l.ptr.tag = "arr"
  THEN [l EXCEPT !.ptr.cells = [i \in DOMAIN @ |-> WriteAliasedIn(@[i], value)]]
  ELSE l
WriteAliased(m, value) == [m EXCEPT !.root = WriteAliasedIn(m.root, value)]
\* the caller drops the pointer
RECURSIVE UnaliasIn(_)
UnaliasIn(l) ==
  IF l.ptr.tag = "kv" THEN [l EXCEPT !.ptr.aliased = FALSE]
  ELSE IF l.ptr.tag = "arr" THEN [l EXCEPT !.ptr.cells = [i \in DOMAIN @ |-> UnaliasIn(@[i])]]
  ELSE l
Unalias(m) == [m EXCEPT !.root = UnaliasIn(m.root)]

\* ---- what is left behind ----
\* What no operation reads again is kept only as far as it can be told from
\* zero: a cell beyond the count of its array (StaleLink unless it is zero) and
\* a path entry left behind (StaleRef unless its link is nil).
StaleLink == [ptr |-> [tag |-> "stale", cells |-> <<>>, k |-> {}, v |-> 0],
              pmap |-> {}, tmap |-> {}]
StaleRef == <<-2>>
NthBit(pmap, i) == CHOOSE b \in pmap : Cardinality({c \in pmap : c < b}) = i
RECURSIVE Tidy(_)
TidyCell(l, i, c) ==
  IF i <= Cardinality(l.pmap)
  THEN (IF NthBit(l.pmap, i - 1) \notin l.tmap THEN Tidy(c) ELSE c)
  ELSE (IF c = ZeroLink THEN c ELSE StaleLink)
Tidy(l) ==
  IF l.ptr.tag # "arr" THEN l
  ELSE [l EXCEPT !.ptr.cells = [i \in DOMAIN l.ptr.cells |-> TidyCell(l, i, l.ptr.cells[i])]]
TidyPath(path) ==
  [i \in DOMAIN path |->
     [radix |-> 0, link |-> IF path[i].link = NilRef THEN NilRef ELSE StaleRef]]
Collect(m) == [m EXCEPT !.root = Tidy(m.root), !.path = TidyPath(m.path)]

\* ---- Set, Add ----
\* the link of a new leaf
LeafLink(var, key, value) ==
  IF var = "IntSet" THEN [ptr |-> NilPtr, pmap |-> Lo(key), tmap |-> Hi(key)]
  ELSE IF var = "IntMap"
  THEN [ptr |-> KvPtr({}, value), pmap |-> Lo(key), tmap |-> Hi(key)]
  ELSE [ptr |-> KvPtr(key, value), pmap |-> {}, tmap |-> {}]
\* the link the displaced leaf gets in the pair of a split
DisplacedLink(var, citem, ckey) ==
  IF IsInt(var) THEN [ptr |-> citem.ptr, pmap |-> Lo(ckey), tmap |-> Hi(ckey)]
  ELSE [ptr |-> citem.ptr, pmap |-> {}, tmap |-> {}]

\* "for cd := uint8(0); cd <= d; cd += (64 / 4) { chw.Write(ckey) }": the number
\* of Writes (-1: the loop does not end)
RECURSIVE RehashWrites(_, _, _)
RehashWrites(cd, d, n) ==
  IF cd > d THEN n
  ELSE IF n > HashLevels THEN -1
  ELSE RehashWrites((cd + HashLevels) % ByteWrap, d, n + 1)

\* "rehash conflicting key": the hash value of the displaced key ckey at depth d
ConflictHashUnshifted(key, ckey, d) == HashVal(ckey, RehashWrites(0, d, 0), 0)
ConflictHashStream(key, ckey, d) == HashVal(ckey, RehashWrites(0, d, 0), d % HashLevels)
ConflictHashMapSet(key, ckey, d) == ShrN(KeyHash(ckey, d % HashLevels), d % HashLevels)
ConflictHashMapMod(key, ckey, d) == ShrN(KeyHash(key, d % HashLevels), d % HashLevels)
ConflictHashSetAdd(key, ckey, d) == ShrN(KeyHash(ckey, d % HashLevels), d % HashLevels)
ConflictHash(var, op, key, ckey, d) ==
  IF var = "Map" THEN (IF op = "Mod" THEN ConflictHashMapMod(key, ckey, d)
                       ELSE ConflictHashMapSet(key, ckey, d))
  ELSE IF var = "Set" THEN ConflictHashSetAdd(key, ckey, d)
  ELSE ConflictHashStream(key, ckey, d)

\* The loop "replace with new branch until non-colliding", up to and including
\* "item.ptr = newLinkArray(2)": item becomes a branch; while the two radices
\* collide the branch has one cell, which becomes the next item.  hd is the new
\* key's hash value, chd the one computed for the displaced key ckey.  Yields the
\* new item, the final depth, the pointer from item to the last branch (tail) and
\* the two radices there.
RECURSIVE BuildChain(_, _, _, _, _, _, _)
\* "item.ptr = newLinkArray(1); item = (*link)(item.ptr)": item.tmap stays as it was
ChainLink(item, kr, rest) ==
  [link |-> [ptr |-> ArrPtr([newLinkArray(1).cells EXCEPT ![1] = rest.link]),
             pmap |-> {kr}, tmap |-> item.tmap],
   d |-> rest.d, tail |-> <<0>> \o rest.tail, kr |-> rest.kr, cr |-> rest.cr,
   ok |-> rest.ok]
ChainLevel(var, sd, item, d, hd, chd, ckey, kr, cr) ==
  IF kr # cr
  THEN [link |-> [ptr |-> newLinkArray(2), pmap |-> {kr, cr}, tmap |-> {kr, cr}],
        d |-> d, tail |-> <<>>, kr |-> kr, cr |-> cr, ok |-> TRUE]
  ELSE IF d >= MaxDepth
  THEN [link |-> item, d |-> d, tail |-> <<>>, kr |-> kr, cr |-> cr, ok |-> FALSE]
  ELSE ChainLink(item, kr, BuildChain(var, sd, ZeroLink, d, hd, chd, ckey))
\* the displaced key's hash value at depth d, entered from depth d - 1
NextConflictHash(var, chd, ckey, d) ==
  IF d % HashLevels # 0 THEN Shr4(chd)
  ELSE IF IsGeneric(var) THEN KeyHash(ckey, d \div HashLevels)
  ELSE HashVal(ckey, chd.w + 1, 0)
ChainStep(var, sd, item, d, hd, chd, ckey) ==
  ChainLevel(var, sd, item, d, hd, chd, ckey, Radix(sd, hd), Radix(sd, chd))
BuildChain(var, sd, item, d, hd, chd, ckey) ==
  ChainStep(var, sd, item, (d + 1) % ByteWrap, NextHash(var, hd, (d + 1) % ByteWrap),
            NextConflictHash(var, chd, ckey, (d + 1) % ByteWrap), ckey)

\* A leaf of another key was found at w: "l.tmap &^= bit; m.dep -= uint64(d)" and
\* the loop above.  The container is then as the Mod callback finds it.
SplitParentKeepsLeafBit(l, w, link) == [l EXCEPT !.ptr.cells[w.idx + 1] = link]
SplitParent(l, w, link) ==
  [l EXCEPT !.tmap = @ \ {w.radix}, !.ptr.cells[w.idx + 1] = link]
SplitChain(m, w, ckey, ch) ==
  [m |-> [m EXCEPT !.root = SetLinkAt(m.root, w.pos,
                                      SplitParent(LinkAt(m.root, w.pos), w, ch.link)),
                   !.dep = @ - w.d, !.fault = @ \/ ~ch.ok],
   ipos |-> Append(w.pos, w.idx) \o ch.tail, d |-> ch.d, kr |-> ch.kr, cr |-> ch.cr,
   displaced |-> DisplacedLink(m.variant, w.item, ckey)]
SplitOf(m, w, key, op, ckey) ==
  SplitChain(m, w, ckey,
             BuildChain(m.variant, m.seed, w.item, w.d, w.hd,
                        ConflictHash(m.variant, op, key, ckey, w.d), ckey))
SplitPrepare(m, w, key, op) == SplitOf(m, w, key, op, LeafKey(m, w.item))

\* the two leaves are stored in the pair in ascending radix order
SplitPair(item, sp, leaf) ==
  IF sp.kr < sp.cr
  THEN [item EXCEPT !.ptr.cells[1] = leaf, !.ptr.cells[2] = sp.displaced]
  ELSE [item EXCEPT !.ptr.cells[1] = sp.displaced, !.ptr.cells[2] = leaf]
SplitFinish(sp, leaf) ==
  IF sp.m.fault THEN sp.m
  ELSE [sp.m EXCEPT !.root = SetLinkAt(sp.m.root, sp.ipos,
                                       SplitPair(LinkAt(sp.m.root, sp.ipos), sp, leaf)),
                    !.len = @ + 1, !.dep = @ + sp.d * 2]

\* The slot of the key's radix is absent at w: the leaf goes into l's array, in
\* place when "(count != 0 && count%4 != 0) || d == 0", else into a new array.
InPlaceBelowRoot(count, d) == count # 0 /\ count % 4 # 0
InPlace(count, d) == (count # 0 /\ count % 4 # 0) \/ d = 0
Shifted(src, dst, idx, count, leaf) ==
  [i \in DOMAIN dst |->
     IF i <= idx THEN src[i]
     ELSE IF i = idx + 1 THEN leaf
     ELSE IF i <= count + 1 THEN src[i - 1]
     ELSE dst[i]]
InsertCells(m, w, leaf, l, count) ==
  IF InPlace(count, w.d)
  THEN (IF l.ptr.tag # "arr" \/ count + 1 > Len(l.ptr.cells) THEN <<>>
        ELSE Shifted(l.ptr.cells, l.ptr.cells, w.idx, count, leaf))
  ELSE (IF count > Len(l.ptr.cells) THEN <<>>
        ELSE Shifted(l.ptr.cells, newLinkArray(count + 1).cells, w.idx, count, leaf))
InsertDone(m, w, l, cells) ==
  IF cells = <<>> THEN [m EXCEPT !.fault = TRUE]
  ELSE [m EXCEPT !.root = SetLinkAt(m.root, w.pos,
                                    [l EXCEPT !.ptr = ArrPtr(cells), !.pmap = @ \cup {w.radix},
                                              !.tmap = @ \cup {w.radix}]),
                 !.len = @ + 1, !.dep = @ + w.d]
InsertInto(m, w, leaf, l) ==
  InsertDone(m, w, l, InsertCells(m, w, leaf, l, Cardinality(l.pmap)))
InsertAbsent(m, w, leaf) == InsertInto(m, w, leaf, LinkAt(m.root, w.pos))

\* "ckv.v = value", "*v = ..." : a write through the pointer to a leaf's value
StoreIn(m, at, value, item) ==
  IF item.ptr.tag = "kv"
  THEN [m EXCEPT !.root = SetLinkAt(m.root, at, [item EXCEPT !.ptr.v = value])]
  ELSE [m EXCEPT !.fault = TRUE]
Store(m, at, value) == StoreIn(m, at, value, LinkAt(m.root, at))

\* the value Set stores in the new record of a split
SplitValue(var, value) == IF var = "ArrMap" THEN 0 ELSE value

\* BytesMap.Set and BytesMap.Mod: "conflict key slice was modified"
SliceModified(m, w, key, ckey) ==
  /\ m.variant = "BytesMap"
  /\ Radix(m.seed, ConflictHashStream(key, ckey, w.d)) # w.radix

\* Set(key, value) of the map variants
SetAt(m, key, value, w) ==
  IF w.kind = "fault" THEN [m EXCEPT !.fault = TRUE]
  ELSE IF w.kind = "missing" THEN InsertAbsent(m, w, LeafLink(m.variant, key, value))
  ELSE IF LeafKey(m, w.item) = key THEN Store(m, Append(w.pos, w.idx), value)
  ELSE IF SliceModified(m, w, key, LeafKey(m, w.item))
  THEN [m EXCEPT !.root = SetLinkAt(m.root, Append(w.pos, w.idx),
                                    [w.item EXCEPT !.ptr = KvPtr(key, value)])]
  ELSE SplitFinish(SplitPrepare(m, w, key, "Set"),
                   LeafLink(m.variant, key, SplitValue(m.variant, value)))
SetOp(m, key, value) == SetAt(m, key, value, Walk(m, key))

\* Add(key) of the set variants
AddAt(m, key, w) ==
  IF w.kind = "fault" THEN [m EXCEPT !.fault = TRUE]
  ELSE IF w.kind = "missing" THEN InsertAbsent(m, w, LeafLink(m.variant, key, 0))
  ELSE IF LeafKey(m, w.item) = key THEN m
  ELSE SplitFinish(SplitPrepare(m, w, key, "Add"), LeafLink(m.variant, key, 0))
AddOp(m, key) == AddAt(m, key, Walk(m, key))

\* ---- Mod: the part before the callback, and the part after it ----
IdleCall == [stage |-> "idle", key |-> {}, existed |-> FALSE,
             l |-> <<>>, pos |-> <<>>, idx |-> 0, radix |-> 0, d |-> 0, kr |-> 0,
             cr |-> 0, displaced |-> ZeroLink]
CallAt(stage, existed, key, w) ==
  [IdleCall EXCEPT !.stage = stage, !.key = key, !.existed = existed, !.l = w.pos,
                   !.pos = w.pos, !.idx = w.idx, !.radix = w.radix, !.d = w.d]
ModSplit(key, w, sp) ==
  IF sp.m.fault THEN [m |-> sp.m, call |-> IdleCall]
  ELSE [m |-> sp.m,
        call |-> [CallAt("split", FALSE, key, w) EXCEPT
                    !.pos = sp.ipos, !.d = sp.d, !.kr = sp.kr, !.cr = sp.cr,
                    !.displaced = sp.displaced]]
\* Mod(key, mod) up to the call of mod: the container as mod finds it, and what
\* the rest of Mod needs once mod has returned.
ModAt(m, key, w) ==
  IF w.kind = "fault" THEN [m |-> [m EXCEPT !.fault = TRUE], call |-> IdleCall]
  ELSE IF w.kind = "missing" THEN [m |-> m, call |-> CallAt("absent", FALSE, key, w)]
  ELSE IF LeafKey(m, w.item) = key
  THEN (IF w.item.ptr.tag = "kv" THEN [m |-> m, call |-> CallAt("exists", TRUE, key, w)]
        ELSE [m |-> [m EXCEPT !.fault = TRUE], call |-> IdleCall])
  ELSE IF SliceModified(m, w, key, LeafKey(m, w.item))
  THEN [m |-> m, call |-> CallAt("replace", FALSE, key, w)]
  ELSE ModSplit(key, w, SplitPrepare(m, w, key, "Mod"))
ModBegin(m, key) == ModAt(m, key, Walk(m, key))

\* mod has returned having written value through the pointer it was given
ModLeaf(m, c, leaf) ==
  IF c.stage = "absent" THEN InsertAbsent(m, c, leaf)
  ELSE IF c.stage = "replace"
  THEN [m EXCEPT !.root = SetLinkAt(m.root, Append(c.pos, c.idx),
                                    [ptr |-> leaf.ptr, pmap |-> {}, tmap |-> {}])]
  ELSE SplitFinish([m |-> m, ipos |-> c.pos, d |-> c.d, kr |-> c.kr, cr |-> c.cr,
                    displaced |-> c.displaced], leaf)
ModEnd(m, c, value) ==
  IF c.stage = "exists" THEN Store(m, Append(c.pos, c.idx), value)
  ELSE ModLeaf(m, c, LeafLink(m.variant, c.key, value))

\* ---- Del ----
ClearsPath == {"StringMap", "BytesMap", "IntMap", "IntSet", "StringSet"}
LiftsLink == {"StringMap", "BytesMap", "IntSet"}

\* "key missing": the test after which Del returns without removing anything
KeyMissing(m, item, key) ==
  IF m.variant = "BytesSet" THEN LeafKey(m, item) = key ELSE LeafKey(m, item) # key

\* "path = append(path, pathLink{radix, l})" for each step of the walk, then
\* "path[i].link = nil" for the entries in cleared.  The slice shares the root's
\* twelve entries until a thirteenth is appended; from then on it is a copy.
PathAfter(path, trail, cleared) ==
  [i \in 1..PathCap |->
     IF i > Len(trail) THEN path[i]
     ELSE IF Len(trail) <= PathCap /\ (i - 1) \in cleared
     THEN [radix |-> trail[i].radix, link |-> NilRef]
     ELSE trail[i]]

\* "unlink empty branches up to the root"
RECURSIVE Unlink(_, _, _, _, _)
UnlinkParent(root, up, d, trail, cleared, parent) ==
  Unlink(SetLinkAt(root, up.link,
                   [parent EXCEPT !.pmap = @ \ {up.radix}, !.tmap = @ \ {up.radix}]),
         up.link, IndexOf(parent.pmap, up.radix), trail, cleared \cup {d - 1})
UnlinkUp(root, up, d, trail, cleared) ==
  UnlinkParent(root, up, d, trail, cleared, LinkAt(root, up.link))
UnlinkNothing(root, pos, idx, trail, cleared, l) ==
  [root |-> root, pos |-> pos, idx |-> idx, cleared |-> cleared]
UnlinkAt(root, pos, idx, trail, cleared, l) ==
  IF Cardinality(l.pmap) = 0 /\ Len(pos) # 0
  THEN UnlinkUp(SetLinkAt(root, pos, [l EXCEPT !.ptr = NilPtr]), trail[Len(pos)],
                Len(pos), trail, cleared)
  ELSE [root |-> root, pos |-> pos, idx |-> idx, cleared |-> cleared]
Unlink(root, pos, idx, trail, cleared) ==
  UnlinkAt(root, pos, idx, trail, cleared, LinkAt(root, pos))

\* "shift items back", into a new array when "count%4 == 0 && d != 0"
ShiftedBack(src, dst, idx, count) ==
  [i \in DOMAIN dst |->
     IF i <= idx THEN src[i] ELSE IF i <= count THEN src[i + 1] ELSE dst[i]]
ShiftInSameArray(root, pos, idx, l, count) ==
  IF l.ptr.tag # "arr" \/ count + 1 > Len(l.ptr.cells) THEN [root |-> root, ok |-> FALSE]
  ELSE [root |-> SetLinkAt(root, pos,
                  [l EXCEPT !.ptr = ArrPtr(ShiftedBack(l.ptr.cells, l.ptr.cells, idx, count))]),
        ok |-> TRUE]
ShiftIn(root, pos, idx, l, count) ==
  IF l.ptr.tag # "arr" \/ count + 1 > Len(l.ptr.cells) THEN [root |-> root, ok |-> FALSE]
  ELSE [root |-> SetLinkAt(root, pos,
                  [l EXCEPT !.ptr = ArrPtr(ShiftedBack(l.ptr.cells,
                       IF count % 4 = 0 /\ Len(pos) # 0 THEN newLinkArray(count).cells
                       ELSE l.ptr.cells, idx, count))]),
        ok |-> TRUE]
ShiftAt(root, pos, idx, l) == ShiftIn(root, pos, idx, l, Cardinality(l.pmap))
ShiftBack(root, pos, idx) == ShiftAt(root, pos, idx, LinkAt(root, pos))

\* "replace single-valued branches with key-values up to the root"
RECURSIVE Lift(_, _, _, _, _, _)
LiftInto(var, root, up, d, trail, dep, cleared) ==
  Lift(var, SetLinkAt(root, up.link, [LinkAt(root, up.link) EXCEPT !.tmap = @ \cup {up.radix}]),
       up.link, trail, dep - 1, cleared \cup {d - 1})
Lifted(var, root, pos, first, up, parent) ==
  IF var \in LiftsLink THEN SetLinkAt(root, pos, first)
  ELSE IF var = "IntMap"
  THEN SetLinkAt(root, Append(up.link, IndexOf(parent.pmap, up.radix)), first)
  ELSE SetLinkAt(root, Append(up.link, IndexOf(parent.pmap, up.radix)),
                 [ptr |-> first.ptr, pmap |-> {}, tmap |-> {}])
LiftUp(var, root, pos, trail, dep, cleared, first, up) ==
  LiftInto(var, Lifted(var, root, pos, first, up, LinkAt(root, up.link)), up, Len(pos),
           trail, dep, cleared)
LiftAt(var, root, pos, trail, dep, cleared, l) ==
  IF Cardinality(l.pmap) = 1 /\ l.pmap = l.tmap /\ Len(pos) # 0
  THEN (IF l.ptr.tag # "arr"
        THEN [root |-> root, d |-> Len(pos), dep |-> dep, cleared |-> cleared, ok |-> FALSE]
        ELSE LiftUp(var, root, pos, trail, dep, cleared, l.ptr.cells[1], trail[Len(pos)]))
  ELSE [root |-> root, d |-> Len(pos), dep |-> dep, cleared |-> cleared, ok |-> TRUE]
Lift(var, root, pos, trail, dep, cleared) ==
  LiftAt(var, root, pos, trail, dep, cleared, LinkAt(root, pos))

\* Del(key)
DelLeaf(l, radix) == [l EXCEPT !.pmap = @ \ {radix}, !.tmap = @ \ {radix}]
DelLifted(m, w, li) ==
  IF ~li.ok THEN [m EXCEPT !.fault = TRUE]
  ELSE [m EXCEPT !.root = li.root, !.len = @ - 1, !.dep = li.dep,
                 !.path = PathAfter(m.path, w.trail,
                                    IF m.variant \in ClearsPath
                                    THEN li.cleared \cup 0..(li.d - 1)
                                    ELSE li.cleared)]
DelShifted(m, w, un, sh) ==
  IF ~sh.ok THEN [m EXCEPT !.fault = TRUE]
  ELSE DelLifted(m, w, Lift(m.variant, sh.root, un.pos, w.trail, m.dep - w.d, un.cleared))
DelUnlinked(m, w, un) == DelShifted(m, w, un, ShiftBack(un.root, un.pos, un.idx))
DelAt(m, key, w) ==
  IF w.kind = "fault" THEN [m EXCEPT !.fault = TRUE]
  ELSE IF w.kind = "missing" \/ KeyMissing(m, w.item, key)
  THEN [m EXCEPT !.path = PathAfter(m.path, w.trail, {})]
  ELSE DelUnlinked(m, w, Unlink(SetLinkAt(m.root, w.pos,
                                          DelLeaf(LinkAt(m.root, w.pos), w.radix)),
                                w.pos, w.idx, w.trail, {w.d}))
DelOp(m, key) == DelAt(m, key, Walk(m, key))

\* ---- All ----
FaultKey == {-1}
\* the scan of one link: the (key, value) pairs handed to the callback, in order,
\* when the callback always returns true
RECURSIVE ScanLink(_, _)
ScanCell(m, l, i, item) ==
  IF NthBit(l.pmap, i) \notin l.tmap THEN ScanLink(m, item)
  ELSE IF IsInt(m.variant) THEN <<[k |-> InlineKey(item.pmap, item.tmap), v |-> item.ptr.v]>>
  ELSE IF item.ptr.tag = "kv" THEN <<[k |-> item.ptr.k, v |-> item.ptr.v]>>
  ELSE <<[k |-> FaultKey, v |-> 0]>>
RECURSIVE ScanCells(_, _, _)
ScanCells(m, l, i) ==
  IF i = Cardinality(l.pmap) THEN <<>>
  ELSE ScanCell(m, l, i, l.ptr.cells[i + 1]) \o ScanCells(m, l, i + 1)
ScanLink(m, l) ==
  IF Cardinality(l.pmap) = 0 THEN <<>>
  ELSE IF l.ptr.tag # "arr" \/ Cardinality(l.pmap) > Len(l.ptr.cells)
  THEN <<[k |-> FaultKey, v |-> 0]>>
  ELSE ScanCells(m, l, 0)
All(m) == ScanLink(m, m.root)

\* A visitor that writes value through the pointer of its call number write and
\* returns false from its call number stop (0: never).
Visitor(write, value, stop) == [write |-> write, value |-> value, stop |-> stop]
\* the scan so far: the keys the visitor was called with, and whether it goes on
ScanStart == [calls |-> <<>>, go |-> TRUE]
VisitorKey(m, item) ==
  IF IsInt(m.variant) THEN InlineKey(item.pmap, item.tmap)
  ELSE IF item.ptr.tag = "kv" THEN item.ptr.k
  ELSE FaultKey
\* what a pointer word holds once a value was written over it
WildPtr == [tag |-> "wild", cells |-> <<>>, k |-> {}, v |-> 0]
\* "*v = value" inside call number n of the visitor; v is "&val.v" for
\* "val := (*intkv[V])(item.ptr)", so where item.ptr is an array of links the
\* write lands on the first word of the array, the pointer of its first link
Visited(item, vis, n) ==
  IF n # vis.write THEN item
  ELSE IF item.ptr.tag = "kv" THEN [item EXCEPT !.ptr.v = vis.value]
  ELSE IF item.ptr.tag = "arr" THEN [item EXCEPT !.ptr.cells[1].ptr = WildPtr]
  ELSE item
\* "if !do(kv.k, &kv.v) { return false }"
VisitLeaf(m, item, vis, st) ==
  [l |-> Visited(item, vis, Len(st.calls) + 1),
   st |-> [calls |-> Append(st.calls, VisitorKey(m, item)),
           go |-> Len(st.calls) + 1 # vis.stop]]
\* the scan of link l from cell i on: the link as the visitor leaves it and the
\* scan so far; go is the scan's result
RECURSIVE ScanFrom(_, _, _, _, _)
ScanDown(m, item, vis, st) ==
  IF Cardinality(item.pmap) = 0 THEN [l |-> item, st |-> st]
  ELSE IF item.ptr.tag # "arr" \/ Cardinality(item.pmap) > Len(item.ptr.cells)
  THEN [l |-> item, st |-> [calls |-> Append(st.calls, FaultKey), go |-> FALSE]]
  ELSE ScanFrom(m, item, 0, vis, st)
ScanItemFromTheEnd(m, l, i, vis, st) ==
  IF NthBit(l.pmap, Cardinality(l.pmap) - 1 - i) \in l.tmap
  THEN VisitLeaf(m, l.ptr.cells[Cardinality(l.pmap) - i], vis, st)
  ELSE ScanDown(m, l.ptr.cells[Cardinality(l.pmap) - i], vis, st)
ScanItem(m, l, i, vis, st) ==
  IF NthBit(l.pmap, i) \in l.tmap THEN VisitLeaf(m, l.ptr.cells[i + 1], vis, st)
  ELSE ScanDown(m, l.ptr.cells[i + 1], vis, st)
\* "return false" when the visitor or the scan of the child has returned false
ScanStepGoesOn(m, l, i, vis, r) ==
  ScanFrom(m, [l EXCEPT !.ptr.cells[i + 1] = r.l], i + 1, vis, [r.st EXCEPT !.go = TRUE])
ScanStep(m, l, i, vis, r) ==
  IF r.st.go THEN ScanFrom(m, [l EXCEPT !.ptr.cells[i + 1] = r.l], i + 1, vis, r.st)
  ELSE [l |-> [l EXCEPT !.ptr.cells[i + 1] = r.l], st |-> r.st]
ScanFrom(m, l, i, vis, st) ==
  IF i = Cardinality(l.pmap) THEN [l |-> l, st |-> st]
  ELSE ScanStep(m, l, i, vis, ScanItem(m, l, i, vis, st))
\* All(do) with the visitor vis
AllWith(m, vis) == ScanDown(m, m.root, vis, ScanStart)

\* ---- Dep ----
\* a float64 quotient of two counters, as numerator and denominator
Quotient(n, d) == [n |-> n, d |-> d]
\* "if r == nil || r.len == 0 { return 0 }; return float64(r.dep) / float64(r.len)"
DepOf(m) == IF m.len = 0 THEN Quotient(0, 1) ELSE Quotient(m.dep, m.len)

\* ---- handles ----
\* A handle h is a struct that embeds the pointer to the root: made by a
\* constructor (h.made, and h.m is the root) or uninitialized (the pointer is
\* nil). A call returns a value or panics.
Returns(value) == [panic |-> FALSE, value |-> value]
Panic == [panic |-> TRUE, value |-> 0]
\* "m.seed", "m.path", "&m.link": a field of the root, reached through the handle
FieldOfNoRoot(h, value) == Returns(value)
Field(h, value) == IF h.made THEN Returns(value) ELSE Panic
\* "return m.root == nil"
NilOf(h) == Returns(~h.made)
\* "if r == nil { return 0 }; return uint(r.len)"
LenUnchecked(h) == Field(h, h.m.len)
LenOf(h) == IF ~h.made THEN Returns(0) ELSE Field(h, h.m.len)
\* "if r == nil || r.len == 0 { return 0 }"
DepOn(h) == IF ~h.made THEN Returns(Quotient(0, 1)) ELSE Field(h, DepOf(h.m))
\* "if m.root != nil { if ptr := m.Ptr(key); ptr != nil { value = *ptr } }; return"
ValUnchecked(h, key) == Field(h, Get(h.m, key).value)
ValOn(h, key) == IF h.made THEN Field(h, Get(h.m, key).value) ELSE Returns(0)
\* the methods of a handle
OpsOf(var) ==
  IF IsMap(var) THEN {"Nil", "Len", "Dep", "Get", "Val", "Ptr", "Set", "Mod", "Del", "All"}
  ELSE {"Nil", "Len", "Dep", "Has", "Add", "Del", "All"}
\* a method up to the first use it makes of the root: "path := m.path[:0]" in
\* Del, "&m.link" in All, "hw.SetSeed(m.seed)" or "key.Hash(m.seed, 0)" in the
\* others (Get calls Ptr)
OnHandle(h, op, key) ==
  CASE op = "Nil" -> NilOf(h)
    [] op = "Len" -> LenOf(h)
    [] op = "Dep" -> DepOn(h)
    [] op = "Val" -> ValOn(h, key)
    [] op = "Del" -> Field(h, "path")
    [] op = "All" -> Field(h, "link")
    [] OTHER -> Field(h, "seed")
NoCall == [op |-> "none", panic |-> FALSE, value |-> 0]
Outcome(op, r) == [op |-> op, panic |-> r.panic, value |-> r.value]

\* ---- the container after a lookup or a traversal ----
\* Ptr, Get, Val and Has assign to their local variables only (hd, l, d, radix,
\* bit, idx, item); All changes what its visitor changes
LookupOps(var) == OpsOf(var) \cap {"Ptr", "Get", "Val", "Has", "All"}
AfterLookupKeepsPath(m, op, key) ==
  [m EXCEPT !.path = PathAfter(m.path, Walk(m, key).trail, {})]
AfterLookup(m, op, key) ==
  IF op = "All" THEN [m EXCEPT !.root = AllWith(m, Visitor(0, 0, 0)).l] ELSE m

\* ---- the loops that feed a hash ----
\* A call of a hash function fn on (key, arg): i is the counter of its loop, n
\* the number of Writes made so far, done whether the loop has ended.
NoCalc == [fn |-> "none", key |-> {}, arg |-> 0, i |-> 0, n |-> 0, done |-> FALSE]
\* HashBytes: "for i := uint8(0); i <= uint8(iter); i++ { hw.Write(key) }", one
\* test of the condition at a time
HashBytesLoop(c) ==
  IF c.i <= c.arg % ByteWrap THEN [c EXCEPT !.n = @ + 1, !.i = (@ + 1) % ByteWrap]
  ELSE [c EXCEPT !.done = TRUE]

\* ---- an allocation fails ----
\* "new([4]link)", "&kv[K, V]{...}": the runtime ends the program when it has no
\* memory left.  What follows is the container as the allocation number n of an
\* insertion leaves it, n counting the allocations the insertion makes in the
\* order the code makes them (ok: the insertion makes that many).  IntSet
\* keeps no record for a leaf and so allocates arrays only.
InsertOps(var) == OpsOf(var) \cap {"Set", "Mod", "Add"}
\* the chain of a split whose allocation n has failed: the item of level n has
\* its bitmaps ("item.pmap = kbit | cbit", "item.tmap = item.pmap") and the pointer
\* it had
RECURSIVE CutChain(_, _, _)
CutChain(link, n, ptr) ==
  IF n <= 1 \/ link.ptr.tag # "arr" THEN [link EXCEPT !.ptr = ptr]
  ELSE [link EXCEPT !.ptr.cells[1] = CutChain(@, n - 1, NilPtr)]
\* the arrays of the chain ch are allocated first, the new record last
SplitFailsAt(m, w, ckey, ch, n) ==
  IF ~ch.ok THEN [ok |-> FALSE, m |-> m]
  ELSE IF n <= Len(ch.tail) + 1
  THEN [ok |-> TRUE,
        m |-> [m EXCEPT !.root = SetLinkAt(m.root, w.pos,
                                   SplitParent(LinkAt(m.root, w.pos), w,
                                               CutChain(ch.link, n, w.item.ptr))),
                        !.dep = @ - w.d]]
  ELSE [ok |-> n = Len(ch.tail) + 2 /\ m.variant # "IntSet",
        m |-> SplitChain(m, w, ckey, ch).m]
\* The slot is absent in l, which holds count items.  Mod allocates the record
\* before it calls mod.  Set and Add, "array slot available": the cells are
\* shifted, then the record is allocated; "array full or empty": the array is
\* allocated, the cells before idx are copied, then the record is allocated.
AbsentFailsAt(m, op, w, l, count, n) ==
  IF op = "Mod" THEN [ok |-> n = 1, m |-> m]
  ELSE IF l.ptr.tag # "arr" \/ count > Len(l.ptr.cells) THEN [ok |-> FALSE, m |-> m]
  ELSE IF InPlace(count, w.d)
  THEN [ok |-> n = 1 /\ m.variant # "IntSet" /\ count + 1 <= Len(l.ptr.cells),
        m |-> [m EXCEPT !.root = SetLinkAt(m.root, w.pos,
                 [l EXCEPT !.ptr.cells =
                    [i \in DOMAIN @ |-> IF i <= w.idx + 1 \/ i > count + 1 THEN @[i]
                                        ELSE @[i - 1]]])]]
  ELSE IF n = 1 THEN [ok |-> TRUE, m |-> m]
  ELSE [ok |-> n = 2 /\ m.variant # "IntSet",
        m |-> [m EXCEPT !.root = SetLinkAt(m.root, w.pos,
                 [l EXCEPT !.ptr.cells =
                    [i \in DOMAIN newLinkArray(count + 1).cells |->
                       IF i <= w.idx THEN l.ptr.cells[i] ELSE ZeroLink]])]]
FailsAt(m, op, key, w, n) ==
  IF w.kind = "fault" THEN [ok |-> FALSE, m |-> m]
  ELSE IF w.kind = "missing"
  THEN AbsentFailsAt(m, op, w, LinkAt(m.root, w.pos),
                     Cardinality(LinkAt(m.root, w.pos).pmap), n)
  ELSE IF LeafKey(m, w.item) = key THEN [ok |-> FALSE, m |-> m]
  ELSE IF SliceModified(m, w, key, LeafKey(m, w.item)) THEN [ok |-> n = 1, m |-> m]
  ELSE SplitFailsAt(m, w, LeafKey(m, w.item),
                    BuildChain(m.variant, m.seed, w.item, w.d, w.hd,
                               ConflictHash(m.variant, op, key, LeafKey(m, w.item), w.d),
                               LeafKey(m, w.item)), n)

\* ---- the state machine ----
\* root, len, dep, path, seed: the fields of the container's root; variant: its
\* type; client: the keys and values its client uses; fault: a memory fault has ended
\* the program; call: the Mod whose callback is running; ref: the map a
\* reference implementation would hold (by key id); pre: the trie as it was
\* when the running Mod was called; taken: the key (by id, 0: none) to whose
\* value the client keeps the pointer a Ptr call has returned; twin: a second
\* container given the seed of the first and fed the insertions the first
\* one is fed, for as long as insertions are all the first one has been fed;
\* made: the handle was returned by a constructor (else it is uninitialized and
\* there is no root); out: the last call on the uninitialized handle and
\* how it ended; oom: an allocation has failed and has ended the program; calc:
\* the call of a hash function made apart from any container, and its result.
VARIABLES variant, seed, client, root, len, dep, path, fault, call, ref, pre, taken, twin,
          made, out, oom, calc
vars == <<variant, seed, client, root, len, dep, path, fault, call, ref, pre, taken, twin,
          made, out, oom, calc>>

\* the container as one value
Cur == [variant |-> variant, seed |-> seed, root |-> root, len |-> len, dep |-> dep,
        fault |-> fault, path |-> path]
Handle == [made |-> made, m |-> Cur]

Absent == 0 - 1
NoSnapshot == [root |-> ZeroLink, len |-> 0, dep |-> 0]
Snapshot(m) == [root |-> m.root, len |-> m.len, dep |-> m.dep]

\* the container after an operation
Install(c) ==
  /\ root' = c.root
  /\ len' = c.len
  /\ dep' = c.dep
  /\ path' = c.path
  /\ fault' = c.fault
  /\ UNCHANGED <<variant, seed, client, made, out, oom, calc>>
Becomes(m) == Install(Collect(m))

\* "s1, s2 := New(), New()" and "s2.seed = s1.seed": s2 is made with a seed of
\* its own and then given the seed of s1
TwinKeepsItsSeed(m) == newRoot(m.variant, 1 - m.seed)
TwinOf(m) == [newRoot(m.variant, 1 - m.seed) EXCEPT !.seed = m.seed]
Twinned(m) == [on |-> TRUE, m |-> m]
Untwinned == [on |-> FALSE, m |-> newRoot(variant, seed)]
\* the second container is fed the insertion, or is given up
TwinSet(key, value) ==
  twin' = IF twin.on THEN Twinned(Collect(SetOp(twin.m, key, value))) ELSE twin
TwinAdd(key) ==
  twin' = IF twin.on THEN Twinned(Collect(AddOp(twin.m, key))) ELSE twin
TwinEnds == twin' = Untwinned

Init ==
  /\ variant \in Variants
  /\ seed \in Seeds
  /\ client \in Clients
  /\ root = newRoot(variant, seed).root
  /\ len = 0
  /\ dep = 0
  /\ path = newRoot(variant, seed).path
  /\ fault = FALSE
  /\ call = IdleCall
  /\ ref = [n \in KeyIds |-> Absent]
  /\ pre = NoSnapshot
  /\ taken = 0
  /\ twin = Twinned(TwinOf(newRoot(variant, seed)))
  /\ made \in BOOLEAN
  /\ out = NoCall
  /\ oom = FALSE
  /\ calc = NoCalc

\* the counters are within the bounds of the model
InBounds == len \in 0..Cardinality(client.keys) /\ dep \in 0..client.dep
Ready == made /\ ~fault /\ ~oom /\ call.stage = "idle" /\ InBounds

Set(key, value) ==
  /\ Ready /\ IsMap(variant)
  /\ Becomes(SetOp(Cur, key, value))
  /\ ref' = [ref EXCEPT ![IdOf(key)] = value]
  /\ TwinSet(key, value)
  /\ UNCHANGED <<call, pre, taken>>

Add(key) ==
  /\ Ready /\ ~IsMap(variant)
  /\ Becomes(AddOp(Cur, key))
  /\ ref' = [ref EXCEPT ![IdOf(key)] = 0]
  /\ TwinAdd(key)
  /\ UNCHANGED <<call, pre, taken>>

\* Mod(key, mod) up to the moment mod is entered
Enter(b) ==
  /\ Becomes(b.m)
  /\ call' = b.call
  /\ pre' = IF b.call.stage = "idle" THEN NoSnapshot ELSE Snapshot(Cur)
ModCall(key) ==
  /\ Ready /\ IsMap(variant)
  /\ Enter(ModBegin(Cur, key))
  /\ TwinEnds
  /\ UNCHANGED <<ref, taken>>

\* mod writes value through its pointer and returns; Mod runs to its end
ModReturn(value) ==
  /\ ~fault /\ ~oom /\ call.stage # "idle"
  /\ Becomes(ModEnd(Cur, call, value))
  /\ call' = IdleCall
  /\ pre' = NoSnapshot
  /\ ref' = [ref EXCEPT ![IdOf(call.key)] = value]
  /\ TwinEnds
  /\ UNCHANGED taken

\* the client drops the pointer it keeps when it deletes the pointer's key
Dropped(m, key) == IF taken = IdOf(key) THEN Unalias(m) ELSE m
Del(key) ==
  /\ Ready
  /\ Becomes(Dropped(DelOp(Cur, key), key))
  /\ ref' = [ref EXCEPT ![IdOf(key)] = Absent]
  /\ taken' = IF taken = IdOf(key) THEN 0 ELSE taken
  /\ TwinEnds
  /\ UNCHANGED <<call, pre>>

\* p := Ptr(key), not nil, and the client keeps p
TakePtr(key) ==
  /\ Ready /\ IsMap(variant) /\ taken = 0
  /\ Ptr(Cur, key) # NilRef
  /\ LinkAt(root, Ptr(Cur, key)).ptr.tag = "kv"
  /\ Becomes(AliasAt(Cur, Ptr(Cur, key)))
  /\ taken' = IdOf(key)
  /\ TwinEnds
  /\ UNCHANGED <<call, pre, ref>>

\* All(do) with a visitor that writes value through the pointer of its call
\* number n and always returns true
Noted(k, value) == IF IdOf(k) = 0 THEN ref ELSE [ref EXCEPT ![IdOf(k)] = value]
AllWrite(n, value) ==
  /\ Ready /\ IsMap(variant)
  /\ n \in 1..Len(All(Cur))
  /\ Becomes([Cur EXCEPT !.root = AllWith(Cur, Visitor(n, value, 0)).l])
  /\ ref' = Noted(All(Cur)[n].k, value)
  /\ TwinEnds
  /\ UNCHANGED <<call, pre, taken>>

\* *p = value, for the pointer the client keeps
WriteThrough(value) ==
  /\ Ready /\ taken # 0
  /\ Becomes(WriteAliased(Cur, value))
  /\ ref' = [ref EXCEPT ![taken] = value]
  /\ TwinEnds
  /\ UNCHANGED <<call, pre, taken>>

\* a call of a method on the uninitialized handle; a panic ends the program
CallOnNil(op, key) ==
  /\ ~made /\ ~out.panic
  /\ op \in OpsOf(variant)
  /\ out' = Outcome(op, OnHandle(Handle, op, key))
  /\ UNCHANGED <<variant, seed, client, root, len, dep, path, fault, call, ref, pre,
                 taken, twin, made, oom, calc>>

\* allocation n of an insertion fails: the program ends
AllocFails(op, key, n) ==
  /\ Ready /\ op \in InsertOps(variant)
  /\ \E f \in {FailsAt(Cur, op, key, Walk(Cur, key), n)} :
       f.ok /\ root' = Collect(f.m).root /\ dep' = f.m.dep
  /\ oom' = TRUE
  /\ TwinEnds
  /\ UNCHANGED <<variant, seed, client, len, path, fault, call, ref, pre, taken, made, out,
                 calc>>

\* mod has returned, the slot was absent and its array is full: the allocation
\* of the new array fails
AllocFailsAfterMod ==
  /\ ~fault /\ ~oom /\ call.stage = "absent"
  /\ ~InPlace(Cardinality(LinkAt(root, call.pos).pmap), call.d)
  /\ oom' = TRUE
  /\ UNCHANGED <<variant, seed, client, root, len, dep, path, fault, call, ref, pre,
                 taken, twin, made, out, calc>>

Next ==
  \/ \E key \in client.keys, value \in client.vals : Set(key, value)
  \/ \E key \in client.keys : Add(key)
  \/ \E key \in client.keys : ModCall(key)
  \/ \E value \in client.vals : ModReturn(value)
  \/ \E key \in client.keys : Del(key)
  \/ \E key \in client.keys : TakePtr(key)
  \/ \E value \in client.vals : WriteThrough(value)
  \/ \E n \in 1..Cardinality(client.keys), value \in client.vals : AllWrite(n, value)
  \/ \E op \in OpsOf(variant), key \in client.keys : CallOnNil(op, key)

Spec == Init /\ [][Next]_vars

\* the program when an allocation may fail
NextOrFailure ==
  \/ Next
  \/ \E op \in InsertOps(variant), key \in client.keys, n \in 1..MaxAllocs :
       AllocFails(op, key, n)
  \/ AllocFailsAfterMod
SpecWithFailure == Init /\ [][NextOrFailure]_vars

\* The hash functions called on their own: on a key and an iteration count
\* (HashBytes, Bytes.Hash), or on a displaced key at the 8-bit depth of its
\* leaf ("rehash conflicting key").  No container is used.
HashInit ==
  /\ variant = "Map"
  /\ seed = 0
  /\ client = [keys |-> {}, vals |-> {}, dep |-> 0]
  /\ root = newRoot(variant, seed).root
  /\ len = 0
  /\ dep = 0
  /\ path = newRoot(variant, seed).path
  /\ fault = FALSE
  /\ call = IdleCall
  /\ ref = [n \in KeyIds |-> Absent]
  /\ pre = NoSnapshot
  /\ taken = 0
  /\ twin = Untwinned
  /\ made = FALSE
  /\ out = NoCall
  /\ oom = FALSE
  /\ calc \in {[NoCalc EXCEPT !.key = KeyVal(2), !.arg = arg] : arg \in 0..MaxIter}
\* HashBytes(key, seed, iter): "var hw maphash.Hash; hw.SetSeed(seed)", then
\* its loop, as long as the model counts its Writes
HashBytesCall ==
  /\ calc.fn = "none"
  /\ calc' = [calc EXCEPT !.fn = "HashBytes"]
  /\ UNCHANGED <<variant, seed, client, root, len, dep, path, fault, call, ref, pre,
                 taken, twin, made, out, oom>>
HashBytesStep ==
  /\ calc.fn = "HashBytes" /\ ~calc.done /\ calc.n <= MaxIter + 1
  /\ calc' = HashBytesLoop(calc)
  /\ UNCHANGED <<variant, seed, client, root, len, dep, path, fault, call, ref, pre,
                 taken, twin, made, out, oom>>
\* Bytes(key).Hash(seed, iter), and the hash of the displaced key at depth
\* arg % 256 (n = -1: its loop does not end)
HashCall(fn, hd) ==
  /\ calc.fn = "none"
  /\ calc' = [calc EXCEPT !.fn = fn, !.n = hd.w, !.done = hd.w >= 0]
  /\ UNCHANGED <<variant, seed, client, root, len, dep, path, fault, call, ref, pre,
                 taken, twin, made, out, oom>>
HashNext ==
  \/ HashBytesCall
  \/ HashBytesStep
  \/ HashCall("Bytes.Hash", KeyHash(calc.key, calc.arg))
  \/ HashCall("rehash", ConflictHashStream(calc.key, calc.key, calc.arg % ByteWrap))
HashSpec == HashInit /\ [][HashNext]_vars

\* ---- The reference: what the calls made so far should have left stored ----
\* no call is running: none is in its callback, none was ended by an allocation
Idle == call.stage = "idle" /\ ~oom
Settled == Idle /\ ~fault
Stored == {k \in client.keys : ref[IdOf(k)] # Absent}
NotStored == client.keys \ Stored
Held(k) == [value |-> ref[IdOf(k)], ok |-> TRUE]
Missing == [value |-> 0, ok |-> FALSE]

\* C1: in every map variant, between calls, Get(K) returns (V, true) for every
\* key K whose latest Set or Mod stored V and that has not been deleted since.
C1_GetAgreesWithReference ==
  (Settled /\ IsMap(variant)) => \A k \in Stored : Get(Cur, k) = Held(k)

\* C2: between calls, for every key that was deleted or never inserted, Ptr
\* returns nil, Get returns (zero, false) and Has returns false.
C2_AbsentKeysReportAbsent ==
  Settled => \A k \in NotStored :
               /\ Ptr(Cur, k) = NilRef
               /\ IsMap(variant) => Get(Cur, k) = Missing
               /\ ~Has(Cur, k)

\* C3: between calls, Len() equals the number of distinct keys stored.
C3_LenCountsStoredKeys == Settled => len = Cardinality(Stored)

\* The trie with every stored value erased: bitmaps, child arrays and keys.
RECURSIVE Shape(_)
ShapeCells(cells) == [i \in DOMAIN cells |-> Shape(cells[i])]
Shape(l) ==
  IF l.ptr.tag = "kv" THEN [l EXCEPT !.ptr.v = 0, !.ptr.aliased = FALSE]
  ELSE IF l.ptr.tag = "arr" THEN [l EXCEPT !.ptr.cells = ShapeCells(@)]
  ELSE l
SameShape(before) ==
  /\ len' = before.len
  /\ dep' = before.dep
  /\ Shape(root') = Shape(before.root)
Overwritten(k, v, before) == SameShape(before) /\ Get(Cur', k) = [value |-> v, ok |-> TRUE]

\* C4: Set(K, V) on a key already stored makes Get(K) return V and changes only
\* that leaf's value, and so does Mod on a key already stored: Len, depth-sum,
\* every bitmap and every child array stay as they were before the call.
C4_OverwriteChangesOnlyValue ==
  [][/\ \A k \in Stored : \A v \in client.vals :
          Set(k, v) => Overwritten(k, v, Snapshot(Cur))
     /\ \A k \in Stored : ModCall(k) => (call'.existed /\ SameShape(Snapshot(Cur)))
     /\ \A v \in client.vals :
          (call.key \in Stored /\ ModReturn(v)) => Overwritten(call.key, v, pre)]_vars

\* C5: Del(K) of a key that is not stored leaves Len, depth-sum, every bitmap,
\* every child array and every stored key with its value as they were.
C5_DelOfAbsentKeyIsNoOp ==
  [][\A k \in NotStored : Del(k) => (root' = root /\ len' = len /\ dep' = dep)]_vars

\* the keys a full traversal hands to its visitor, in order
ScanKeys == [i \in DOMAIN All(Cur) |-> All(Cur)[i].k]
NoRepeat(s) == \A i \in DOMAIN s : \A j \in DOMAIN s : s[i] = s[j] => i = j
Range(s) == {s[i] : i \in DOMAIN s}

\* C6: between calls, a full traversal visits exactly the stored keys, none of
\* them twice, and makes Len() calls of the visitor.
C6_ScanVisitsEachStoredKeyOnce ==
  Settled => /\ Range(ScanKeys) = Stored
             /\ NoRepeat(ScanKeys)
             /\ Len(ScanKeys) = len

\* C7: in a BytesSet, Del(k) of a stored key k removes k and nothing else: Has(k)
\* is false afterwards, Len has dropped by one, every other stored key is kept.
C7_BytesSetDelRemovesThatKey ==
  [][variant = "BytesSet" =>
       \A k \in Stored : Del(k) => /\ ~Has(Cur', k)
                                   /\ len' = len - 1
                                   /\ \A j \in Stored \ {k} : Has(Cur', j)]_vars

\* C8: in the generic Map and Set, every key stored stays retrievable through
\* Ptr, Get and Has whatever keys are inserted after it.
C8_GenericKeysStayRetrievable ==
  (Settled /\ IsGeneric(variant)) =>
     \A k \in Stored : /\ Has(Cur, k)
                       /\ Ptr(Cur, k) # NilRef
                       /\ IsMap(variant) => Get(Cur, k).ok

\* C9: Mod(K, f) calls f with existed = true and K's current value when K is
\* stored, otherwise with existed = false and a zero value; once f has returned,
\* Get(K) returns the value f left and Len has grown by one only if K was new.
Handed(m, c) ==
  IF c.stage = "exists" THEN Deref(m, Append(c.pos, c.idx)).value ELSE 0
C9_ModCallsBackAndStores ==
  [][/\ \A k \in client.keys : ModCall(k) =>
          /\ call'.stage # "idle"
          /\ call'.existed = (k \in Stored)
          /\ Handed(Cur', call') = (IF k \in Stored THEN ref[IdOf(k)] ELSE 0)
     /\ \A v \in client.vals : ModReturn(v) =>
          /\ Get(Cur', call.key) = [value |-> v, ok |-> TRUE]
          /\ len' = pre.len + (IF call.existed THEN 0 ELSE 1)]_vars

\* the callback of Mod is running for a key that did not exist
NewKeyCallback == call.stage # "idle" /\ ~call.existed
\* a container with the slot Mod walked to, and its leaf bit, blanked out
Elsewhere(r) ==
  SetLinkAt(r, call.l, [LinkAt(r, call.l) EXCEPT !.tmap = @ \ {call.radix},
                                                 !.ptr.cells[call.idx + 1] = ZeroLink])

\* C10 as stated: while the callback runs with existed = false, every bitmap,
\* child array, Len and depth-sum is as it was before the Mod call.
C10_TrieUntouchedAtCallback ==
  NewKeyCallback => (root = pre.root /\ len = pre.len /\ dep = pre.dep)

\* C10 as the code has it: while the callback runs with existed = false the new
\* leaf is not linked and Len is as before the call.  On an absent slot the trie
\* is exactly as before.  On a leaf to be split, the split is already prepared:
\* the slot's leaf bit is cleared in its node, depth-sum is less by the depth of
\* the leaf found there, the slot starts the chain of branches whose last one
\* has two leaf slots and two empty cells, and all else is as before.
C10_CallbackBeforeLeafIsLinked ==
  /\ NewKeyCallback => len = pre.len
  /\ (NewKeyCallback /\ call.stage # "split") =>
        (root = pre.root /\ dep = pre.dep)
  /\ call.stage = "split" =>
        /\ call.radix \in LinkAt(pre.root, call.l).tmap
        /\ LinkAt(root, call.l).tmap = LinkAt(pre.root, call.l).tmap \ {call.radix}
        /\ LinkAt(root, call.l).pmap = LinkAt(pre.root, call.l).pmap
        /\ dep = pre.dep - Len(call.l)
        /\ LinkAt(root, call.pos).pmap = {call.kr, call.cr}
        /\ LinkAt(root, call.pos).tmap = {call.kr, call.cr}
        /\ call.kr # call.cr
        /\ LinkAt(root, call.pos).ptr = newLinkArray(2)
        /\ Elsewhere(root) = Elsewhere(pre.root)
C10_SplitCallbackReached ==
  call.stage = "split" /\ root # pre.root /\ dep < pre.dep

\* the record the kept pointer was taken from is still the one Ptr finds
PointerStable ==
  (Settled /\ taken # 0) =>
     /\ Ptr(Cur, KeyVal(taken)) # NilRef
     /\ LinkAt(root, Ptr(Cur, KeyVal(taken))).ptr.tag = "kv"
     /\ LinkAt(root, Ptr(Cur, KeyVal(taken))).ptr.aliased

\* C11: a pointer Ptr(K) has returned keeps referring to K's stored value across
\* later Set, Mod and Del on other keys and Set and Mod on K: the record Ptr(K)
\* finds is still that one, and a write through the old pointer is what Get(K)
\* returns.
C11_PointerStaysValid ==
  [][/\ PointerStable
     /\ \A v \in client.vals :
          WriteThrough(v) => Get(Cur', KeyVal(taken)) = [value |-> v, ok |-> TRUE]]_vars

\* C12: the pointer Ptr(K) returns and the pointer All hands its visitor alias
\* the stored value: a write through either is what Get(K) returns afterwards,
\* it changes neither Len, depth-sum nor any bitmap or child array, and the
\* traversal in which the visitor writes visits the keys it would have visited.
C12_PointersAliasStoredValue ==
  [][/\ \A v \in client.vals :
          (PointerStable /\ WriteThrough(v)) =>
             Overwritten(KeyVal(taken), v, Snapshot(Cur))
     /\ \A n \in 1..Cardinality(client.keys) : \A v \in client.vals :
          AllWrite(n, v) =>
             /\ Overwritten(All(Cur)[n].k, v, Snapshot(Cur))
             /\ AllWith(Cur, Visitor(n, v, 0)).st.calls = ScanKeys
             /\ AllWith(Cur, Visitor(n, v, 0)).st.go]_vars

\* C14: when the visitor returns false from its n-th call, at whatever depth,
\* it has been called for the first n keys of the traversal and is not called
\* again, All returns, and the container is as it was.
C14_FalseStopsTraversal ==
  Settled => \A n \in 1..Len(ScanKeys) :
               /\ AllWith(Cur, Visitor(0, 0, n)).st.calls = SubSeq(ScanKeys, 1, n)
               /\ ~AllWith(Cur, Visitor(0, 0, n)).st.go
               /\ AllWith(Cur, Visitor(0, 0, n)).l = root
\* the visitor returns false from its first call, made two levels below the
\* root for the first slot of the root, with keys left in the root's other slots
C14_StoppedBelowRoot ==
  /\ Settled
  /\ Cardinality(root.pmap) >= 2
  /\ NthBit(root.pmap, 0) \notin root.tmap
  /\ Len(ScanKeys) >= 3
  /\ AllWith(Cur, Visitor(0, 0, 1)).st = [calls |-> <<ScanKeys[1]>>, go |-> FALSE]

\* the keys in the order a full traversal of a container visits them
KeysInOrder(m) == [i \in DOMAIN All(m) |-> All(m)[i].k]

RECURSIVE LeafPaths(_, _)
LeafPathsAt(l, above, i) ==
  IF NthBit(l.pmap, i) \in l.tmap THEN {Append(above, NthBit(l.pmap, i))}
  ELSE LeafPaths(l.ptr.cells[i + 1], Append(above, NthBit(l.pmap, i)))
LeafPaths(l, above) ==
  IF l.ptr.tag # "arr" \/ Cardinality(l.pmap) > Len(l.ptr.cells) THEN {}
  ELSE UNION {LeafPathsAt(l, above, i) : i \in 0..(Cardinality(l.pmap) - 1)}
\* the leaf at the end of a radix path
RECURSIVE LeafOn(_, _)
LeafOn(l, p) ==
  IF p = <<>> THEN l ELSE LeafOn(l.ptr.cells[IndexOf(l.pmap, Head(p)) + 1], Tail(p))
\* path p comes before path q when the children of every node are taken in
\* ascending radix order and a child's leaves all come before the next child
RECURSIVE Before(_, _)
Before(p, q) ==
  /\ p # <<>> /\ q # <<>>
  /\ \/ Head(p) < Head(q)
     \/ Head(p) = Head(q) /\ Before(Tail(p), Tail(q))
RankOf(p) == Cardinality({q \in LeafPaths(root, <<>>) : Before(q, p)})
ReadOnly == Visitor(0, 0, 0)

\* C15: between calls, All calls the visitor once for every leaf, the leaf of
\* a radix path after the leaves of all the paths that come before it depth
\* first in ascending radix order; it leaves the trie as it was, and a second
\* All right after it visits the same keys in the same order.
C15_DepthFirstAscendingRadix ==
  Settled =>
    /\ Len(AllWith(Cur, ReadOnly).st.calls) = Cardinality(LeafPaths(root, <<>>))
    /\ \A p \in LeafPaths(root, <<>>) :
         AllWith(Cur, ReadOnly).st.calls[RankOf(p) + 1] = VisitorKey(Cur, LeafOn(root, p))
    /\ AllWith(Cur, ReadOnly).l = root
    /\ AllWith([Cur EXCEPT !.root = AllWith(Cur, ReadOnly).l], ReadOnly).st
         = AllWith(Cur, ReadOnly).st
\* the first slot of the root holds a branch of two leaves or more, the
\* second slot a leaf
C15_BranchThenLeaf ==
  /\ Settled
  /\ Cardinality(root.pmap) >= 2
  /\ NthBit(root.pmap, 0) \notin root.tmap
  /\ NthBit(root.pmap, 1) \in root.tmap
  /\ Cardinality(LeafPaths(root, <<>>)) >= 3
  /\ Len(AllWith(Cur, ReadOnly).st.calls) >= 3

\* the sum of the depths of the leaves on a set of radix paths, a leaf in a
\* slot of the root having depth 0
RECURSIVE DepthSum(_)
DepthSumFrom(ps, p) == (Len(p) - 1) + DepthSum(ps \ {p})
DepthSum(ps) == IF ps = {} THEN 0 ELSE DepthSumFrom(ps, CHOOSE p \in ps : TRUE)

\* C16: between calls, depth-sum is the sum of the depths of the leaves of the
\* trie, and Dep() is depth-sum / Len when Len > 0 and 0 when the container
\* is empty.
C16_DepthSumIsSumOfLeafDepths ==
  Settled =>
    /\ dep = DepthSum(LeafPaths(root, <<>>))
    /\ len > 0 => DepOf(Cur) = Quotient(DepthSum(LeafPaths(root, <<>>)), len)
    /\ len = 0 => DepOf(Cur) = Quotient(0, 1)

Zero == Returns(0)
\* C17: on an uninitialized handle Nil() returns true, Len() returns 0 and
\* Dep() returns 0, and none of them panics; on a handle that a constructor
\* has returned Nil() returns false.
C17_NilLenDepAreSafe ==
  /\ ~made => /\ NilOf(Handle) = Returns(TRUE)
              /\ LenOf(Handle) = Zero
              /\ DepOn(Handle) = Returns(Quotient(0, 1))
              /\ out.op \in {"Nil", "Len", "Dep"} => ~out.panic
              /\ out.op = "Len" => out.value = 0
  /\ made => NilOf(Handle) = Returns(FALSE)
\* Len() has returned 0 on the uninitialized handle
C17_LenReturnedOnNilHandle == ~made /\ out = Outcome("Len", Zero)

\* C18: Val(K) on an uninitialized map returns the zero of the value type and
\* does not panic; the uninitialized map is what a lookup of a missing key
\* returns from a map of maps, it has Len 0 and Nil true.
C18_ValOfNilMapIsZero ==
  (~made /\ IsMap(variant)) =>
    /\ \A k \in client.keys : ValOn(Handle, k) = Zero
    /\ LenOf(Handle) = Zero
    /\ NilOf(Handle) = Returns(TRUE)
    /\ out.op = "Val" => out = Outcome("Val", Zero)
\* Val has returned on the uninitialized map
C18_ValReturnedOnNilMap == ~made /\ IsMap(variant) /\ out.op = "Val" /\ ~out.panic

\* the root a constructor makes: the uninitialized handle has not even that
NoState == Snapshot(Cur) = Snapshot(newRoot(variant, seed))
\* C19 as stated: on an uninitialized handle every operation other than Len,
\* Dep and Nil panics, never returns normally and creates no state.
C19_AllButLenDepNilPanic ==
  ~made =>
    /\ \A op \in OpsOf(variant) \ {"Len", "Dep", "Nil"} :
         \A k \in client.keys : OnHandle(Handle, op, k).panic
    /\ out.op \notin {"none", "Len", "Dep", "Nil"} => out.panic
    /\ NoState
\* C19, amended: on an uninitialized handle every operation other than Len,
\* Dep, Nil and Val (that is Get, Ptr, Has, Set, Add, Mod, Del and All)
\* panics, never returns normally and creates no state.
C19_AllButLenDepNilValPanic ==
  ~made =>
    /\ \A op \in OpsOf(variant) \ {"Len", "Dep", "Nil", "Val"} :
         \A k \in client.keys : OnHandle(Handle, op, k).panic
    /\ out.op \notin {"none", "Len", "Dep", "Nil", "Val"} => out.panic
    /\ NoState
\* a call on the uninitialized handle has ended in a panic
C19_PanickedOnNilHandle ==
  ~made /\ out.panic /\ out.op \in {"Get", "Ptr", "Has", "Set", "Add", "Mod", "Del", "All"}

\* the radix of a key at depth d: chunk d % 16 of its hash number d \div 16
RadixAt(sd, key, d) == Radix(sd, HashVal(key, (d \div HashLevels) + 1, d % HashLevels))
\* the key of the leaf on a radix path has the path's radix at every depth
OnItsPath(m, p) ==
  \A j \in 1..Len(p) : RadixAt(m.seed, VisitorKey(m, LeafOn(m.root, p)), j - 1) = p[j]
\* the bitmaps and the child array of node l and of the nodes below it
RECURSIVE WellFormed(_)
ChildWellFormed(l, i) ==
  IF NthBit(l.pmap, i) \in l.tmap
  THEN IsInt(variant) \/ l.ptr.cells[i + 1].ptr.tag = "kv"
  ELSE l.ptr.cells[i + 1].pmap # {} /\ WellFormed(l.ptr.cells[i + 1])
WellFormed(l) ==
  /\ l.tmap \subseteq l.pmap
  /\ l.ptr.tag = "arr"
  /\ Cardinality(l.pmap) <= Len(l.ptr.cells)
  /\ \A i \in 0..(Cardinality(l.pmap) - 1) : ChildWellFormed(l, i)

\* C20: between calls, at every node reachable from the root, in every
\* variant, the type bitmap is a subset of the presence bitmap, the first
\* popcount(P) cells of the child array are the cells in use, and cell i holds
\* the child of the i-th set bit of P: the keys below it have that radix.
C20_NodesAreWellFormed ==
  (made /\ Settled) =>
    /\ WellFormed(root)
    /\ \A p \in LeafPaths(root, <<>>) : OnItsPath(Cur, p)

\* the positions of the nodes reachable from node l, itself at position at
RECURSIVE NodesBelow(_, _)
NodesUnder(l, at, i) ==
  IF NthBit(l.pmap, i) \in l.tmap THEN {}
  ELSE NodesBelow(l.ptr.cells[i + 1], Append(at, i))
NodesBelow(l, at) ==
  {at} \cup (IF l.ptr.tag # "arr" \/ Cardinality(l.pmap) > Len(l.ptr.cells) THEN {}
             ELSE UNION {NodesUnder(l, at, i) : i \in 0..(Cardinality(l.pmap) - 1)})
InnerNodes == NodesBelow(root, <<>>) \ {<<>>}
\* the smallest of 4, 8, 12, 16 that holds n entries
CapacityClass(n) == CHOOSE c \in {4, 8, 12, 16} : n <= c /\ (c = 4 \/ n > c - 4)
CellsOf(l) == IF l.ptr.tag = "arr" THEN Len(l.ptr.cells) ELSE 0

C22_NoLoneLeafBelowRoot ==
  (made /\ Settled) =>
    \A at \in InnerNodes :
      ~(Cardinality(LinkAt(root, at).pmap) = 1 /\ LinkAt(root, at).tmap = LinkAt(root, at).pmap)

\* C23: between calls, no node below the root is empty.
C23_NoEmptyNodeBelowRoot ==
  (made /\ Settled) => \A at \in InnerNodes : LinkAt(root, at).pmap # {}

C23_NodesLeftAfterDel ==
  /\ made /\ Settled /\ ~twin.on
  /\ NotStored # {}
  /\ Cardinality(InnerNodes) >= 2

\* C24: the child array of the root is at all times the array of sixteen cells
\* the constructor has made: no insert and no delete puts another array or a
\* leaf in its place, whatever the number of children of the root.
C24_RootArrayIsNeverReplaced ==
  made => root.ptr.tag = "arr" /\ Len(root.ptr.cells) = RootCap
\* the root holds five leaves, then four again after a delete
C24_RootOfFiveLeaves == made /\ Settled /\ Cardinality(root.pmap) = 5

\* the radix paths on which key k is the key of the leaf
PathsOf(k) == {p \in LeafPaths(root, <<>>) : VisitorKey(Cur, LeafOn(root, p)) = k}
\* the radices of key k at the depths 0 .. d
RadixStream(k, d) == [j \in 1..(d + 1) |-> RadixAt(seed, k, j - 1)]

\* C25: between calls, every stored key has a leaf, and the leaf of a key K at
\* depth d is reached from the root by radix(K, 0), ..., radix(K, d), the
\* radix at depth i being chunk i mod 16 of the hash of iteration i div 16.
C25_LeafOnRadixStreamOfItsKey ==
  (made /\ Settled) =>
    /\ \A k \in Stored : PathsOf(k) # {}
    /\ \A p \in LeafPaths(root, <<>>) :
         p = RadixStream(VisitorKey(Cur, LeafOn(root, p)), Len(p) - 1)

\* the insertions of a variant
Inserts == IF IsMap(variant) THEN {"Set", "Mod"} ELSE {"Add"}
\* the walk of key k ends at the leaf of another key, which the insertion displaces
Displaces(k, w) ==
  /\ w.kind = "leaf"
  /\ LeafKey(Cur, w.item) # k
  /\ ~SliceModified(Cur, w, k, LeafKey(Cur, w.item))
\* the split sp of the leaf found at w has given the displaced key ckey its own
\* radix at every level below w.d: the one bit of each node of the chain and
\* the displaced key's bit in the last node
OwnRadices(w, sp, ckey) ==
  /\ \A j \in (w.d + 1)..(sp.d - 1) :
       LinkAt(sp.m.root, SubSeq(sp.ipos, 1, j)).pmap = {RadixAt(seed, ckey, j)}
  /\ sp.cr = RadixAt(seed, ckey, sp.d)
DisplacedAsLookedUp(k, w, op) ==
  ~SplitPrepare(Cur, w, k, op).m.fault =>
    OwnRadices(w, SplitPrepare(Cur, w, k, op), LeafKey(Cur, w.item))

\* C26: when Set, Mod or Add displaces the leaf of another key found at depth
\* d, the displaced key gets at every deeper level the radix a lookup of that
\* key computes there, in every variant.
C26_DisplacedKeyKeepsItsRadices ==
  (made /\ Settled) =>
    \A k \in client.keys : \A op \in Inserts :
      Displaces(k, Walk(Cur, k)) => DisplacedAsLookedUp(k, Walk(Cur, k), op)

\* the first depth from d on at which the radices of keys k and c differ
RECURSIVE PartAt(_, _, _)
PartAt(k, c, d) ==
  IF RadixAt(seed, k, d) # RadixAt(seed, c, d) \/ d >= MaxDepth THEN d
  ELSE PartAt(k, c, d + 1)
\* the container after the insertion op of key k
Inserted(k, op) ==
  IF op = "Set" THEN SetOp(Cur, k, MaxVal)
  ELSE IF op = "Add" THEN AddOp(Cur, k)
  ELSE ModEnd(ModBegin(Cur, k).m, ModBegin(Cur, k).call, MaxVal)
\* node l holds the leaves of keys k and c, and only them, in ascending radix order
PairOf(m, l, k, c, d) ==
  /\ l.pmap = {RadixAt(seed, k, d), RadixAt(seed, c, d)}
  /\ l.tmap = l.pmap
  /\ l.ptr.tag = "arr"
  /\ {VisitorKey(m, l.ptr.cells[1]), VisitorKey(m, l.ptr.cells[2])} = {k, c}
  /\ RadixAt(seed, VisitorKey(m, l.ptr.cells[1]), d)
       < RadixAt(seed, VisitorKey(m, l.ptr.cells[2]), d)
\* below the leaf slot at position at and depth d: nodes of one presence bit
\* and no type bit down to depth last - 1, and the pair at depth last
ChainOf(m, at, d, last, k, c) ==
  /\ Len(at) = last
  /\ \A j \in (d + 1)..(last - 1) :
       /\ Cardinality(LinkAt(m.root, SubSeq(at, 1, j)).pmap) = 1
       /\ LinkAt(m.root, SubSeq(at, 1, j)).tmap = {}
  /\ PairOf(m, LinkAt(m.root, at), k, c, last)
SplitAsSpecified(k, w, op) ==
  ChainOf(Inserted(k, op), SplitPrepare(Cur, w, k, op).ipos, w.d,
          PartAt(k, LeafKey(Cur, w.item), w.d + 1), k, LeafKey(Cur, w.item))

\* C27: when an inserted key collides with the leaf of another key at depth d
\* and their radices first differ at depth D > d, the leaf slot and every
\* level down to D - 1 become nodes of one presence bit and type bitmap 0, and
\* the node at depth D has P = T = the two radix bits and holds the two leaves
\* in ascending radix order; in every variant and for every key.
C27_SplitBuildsChainAndPair ==
  (made /\ Settled) =>
    \A k \in client.keys : \A op \in Inserts :
      (Displaces(k, Walk(Cur, k))
       /\ PartAt(k, LeafKey(Cur, Walk(Cur, k).item), Walk(Cur, k).d + 1) < MaxDepth)
        => SplitAsSpecified(k, Walk(Cur, k), op)

\* C28: between calls, that is whenever a Del has returned, no entry of the
\* path buffer of the root holds a reference to a node.
C28_PathBufferClearedAfterDel ==
  (made /\ Settled) => \A i \in 1..PathCap : path[i].link = NilRef

EndsAt(sp, d, last) ==
  /\ RehashWrites(0, d, 0) >= 0
  /\ ~sp.m.fault
  /\ sp.d = last
  /\ Len(sp.ipos) = last
\* the walk of key k ends inside the trie
WalkEnds(k) == Walk(Cur, k).kind # "fault" /\ Len(Walk(Cur, k).pos) = Walk(Cur, k).d

\* C30: between calls, an insertion that finds the leaf of another key at
\* depth d, the radices of the two keys first differing at a depth D > d,
\* ends having made the D - d nodes of the depths d + 1 .. D, one for each
\* level on which the keys still collide and the one that holds both; and
\* the walk of every lookup and delete and the traversal end.
C30_InsertionEndsWhereKeysPart ==
  (made /\ Settled) =>
    /\ \A k \in client.keys : \A op \in Inserts :
         (Displaces(k, Walk(Cur, k))
          /\ PartAt(k, LeafKey(Cur, Walk(Cur, k).item), Walk(Cur, k).d + 1) < MaxDepth)
           => EndsAt(SplitPrepare(Cur, Walk(Cur, k), k, op), Walk(Cur, k).d,
                     PartAt(k, LeafKey(Cur, Walk(Cur, k).item), Walk(Cur, k).d + 1))
    /\ \A k \in client.keys : WalkEnds(k)
    /\ Len(AllWith(Cur, ReadOnly).st.calls) <= Cardinality(LeafPaths(root, <<>>))
\* every key is found after the step if and only if it is found before it
SameKeysFound == \A k \in client.keys : Has(Cur', k) = Has(Cur, k)
\* C31: when an allocation fails inside Set, Mod or Add, the trie is as
\* consistent as it was: Len and depth-sum are as before the call, the nodes
\* are well formed if they were, and every key stored before is still found.
C31_FailedAllocationLeavesTrieConsistent ==
  [][(oom' /\ ~oom) =>
       /\ len' = len
       /\ dep' = dep
       /\ WellFormed(root) => WellFormed(root')
       /\ SameKeysFound]_vars

\* C32: HashBytes(key, seed, iter) ends for every iter, having fed the key
\* iter + 1 times, and returns what Bytes.Hash(seed, iter) returns on the key.
C32_HashBytesFeedsKeyIterPlusOneTimes ==
  calc.fn = "HashBytes" =>
    /\ calc.n <= calc.arg + 1
    /\ calc.done => HashVal(calc.key, calc.n, 0) = KeyHash(calc.key, calc.arg)

\* C38: in the non-generic variants the loop that feeds the displaced key to
\* its hash ends for every 8-bit depth d of the leaf, having fed the key
\* floor(d / 16) + 1 times.
C38_RehashLoopEndsForEveryDepth ==
  calc.fn = "rehash" =>
    /\ calc.done
    /\ calc.n = ((calc.arg % ByteWrap) \div HashLevels) + 1

\* cell c holds the reference to the leaf record of key k
HoldsRecordOf(c, k) ==
  c.ptr.tag = "kv" /\ (IF IsInt(variant) THEN InlineKey(c.pmap, c.tmap) = k ELSE c.ptr.k = k)
\* some cell of the array of node l, in use or not, or of an array below l,
\* holds the reference to the leaf record of key k
RECURSIVE RefersTo(_, _)
RefersTo(l, k) ==
  /\ l.ptr.tag = "arr"
  /\ \E i \in DOMAIN l.ptr.cells :
       \/ HoldsRecordOf(l.ptr.cells[i], k)
       \/ /\ i <= Cardinality(l.pmap)
          /\ NthBit(l.pmap, i - 1) \notin l.tmap
          /\ RefersTo(l.ptr.cells[i], k)
\* Del(k) removes a leaf
Removes(k) == ~DelOp(Cur, k).fault /\ DelOp(Cur, k).len = len - 1
\* C33: after Del has removed a leaf, no cell of any child array reachable
\* from the root holds a reference to the removed leaf record, the cells at
\* or beyond popcount(P) included.
C33_RemovedLeafIsNowhereReferenced ==
  (made /\ Settled) =>
    \A k \in client.keys :
      Removes(k) => ~RefersTo(DelOp(Cur, k).root, LeafKey(Cur, Walk(Cur, k).item))

\* C34: in IntMap and IntSet every 64-bit key is rebuilt from the two words
\* it is stored in, and between calls Ptr, Has and All report exactly the keys
\* that were inserted and not deleted, whatever splits and deletes have moved
\* their leaves.
C34_InlineKeysAreTheKeysInserted ==
  (made /\ Settled /\ IsInt(variant)) =>
    /\ \A k \in client.keys : InlineKey(Lo(k), Hi(k)) = k
    /\ \A k \in client.keys : Has(Cur, k) = (k \in Stored)
    /\ \A k \in client.keys : (Ptr(Cur, k) # NilRef) = (k \in Stored)
    /\ Range(ScanKeys) = Stored

\* what the structure of node l and of the nodes below it is made of: the two
\* bitmaps, the capacity of the child array and, for each cell in use, the key
\* of its leaf or the structure of its node
RECURSIVE Structure(_)
StructureAt(l, i) ==
  IF NthBit(l.pmap, i - 1) \in l.tmap THEN [leaf |-> LeafKey(Cur, l.ptr.cells[i])]
  ELSE Structure(l.ptr.cells[i])
Structure(l) ==
  IF l.ptr.tag # "arr" \/ Cardinality(l.pmap) > Len(l.ptr.cells)
  THEN [pmap |-> l.pmap, tmap |-> l.tmap, cap |-> 0, cells |-> <<>>]
  ELSE [pmap |-> l.pmap, tmap |-> l.tmap, cap |-> Len(l.ptr.cells),
        cells |-> [i \in 1..Cardinality(l.pmap) |-> StructureAt(l, i)]]
\* the key of the largest number among keys
LastOf(keys) == CHOOSE k \in keys : \A j \in keys : IdOf(j) <= IdOf(k)
\* the container made by inserting keys, in the order of their numbers, into a
\* new container of the same seed
RECURSIVE BuiltFrom(_)
BuiltWith(m, k) == IF IsMap(variant) THEN SetOp(m, k, MaxVal) ELSE AddOp(m, k)
BuiltFrom(keys) ==
  IF keys = {} THEN newRoot(variant, seed)
  ELSE BuiltWith(BuiltFrom(keys \ {LastOf(keys)}), LastOf(keys))
\* the container has the structure, depth-sum and order of the one built from keys
AsBuilt(b) ==
  /\ Structure(root) = Structure(b.root)
  /\ dep = b.dep
  /\ ScanKeys = KeysInOrder(b)
\* C35: between calls, the bitmaps of every node, the position of every leaf,
\* the capacity of every array, depth-sum and the order of traversal are
\* those of the trie of the keys now stored, whatever the order of the
\* insertions was and whatever keys were inserted and deleted meanwhile.
C35_ShapeDependsOnStoredKeysOnly ==
  (made /\ Settled) => AsBuilt(BuiltFrom(Stored))

\* the container after Mod(k, f), f storing v; b is Mod up to the call of f
ModStoring(b, v) == IF b.call.stage = "idle" THEN b.m ELSE ModEnd(b.m, b.call, v)
\* the same bitmaps, child arrays, keys, values, Len and depth-sum
SameContainer(a, b) ==
  /\ a.fault = b.fault
  /\ Collect(a).root = Collect(b).root
  /\ a.len = b.len
  /\ a.dep = b.dep
\* C36: in every map variant, between calls, Mod(K, f) with f storing V leaves
\* the container as Set(K, V) leaves it: the same bitmaps, leaf positions, Len,
\* depth-sum and values.
C36_ModStoringIsSet ==
  (made /\ Settled /\ IsMap(variant)) =>
    \A k \in client.keys : \A v \in client.vals :
      SameContainer(ModStoring(ModBegin(Cur, k), v), SetOp(Cur, k, v))

\* the insertion of the new key k has added one to Len and has kept every
\* other key with its value
AddsOne(after) ==
  /\ ~after.fault
  /\ after.len = len + 1
  /\ \A j \in Stored : Get(after, j) = Get(Cur, j)
\* C37: in BytesMap, whose stored key slices nobody modifies, between calls no
\* Set or Mod of any key would take the branch "conflict key slice was
\* modified", and the Set or Mod of a new key adds one to Len and keeps every
\* other key retrievable.
C37_StoredKeyIsNeverTakenForModified ==
  (made /\ Settled /\ variant = "BytesMap") =>
    /\ \A k \in client.keys :
         Walk(Cur, k).kind = "leaf"
           => ~SliceModified(Cur, Walk(Cur, k), k, LeafKey(Cur, Walk(Cur, k).item))
    /\ \A k \in NotStored : \A v \in client.vals :
         /\ AddsOne(SetOp(Cur, k, v))
         /\ AddsOne(ModStoring(ModBegin(Cur, k), v))
\* three keys are stored, two of them in leaves that a split below the root
\* has made
C37_LeafDisplacedBelowRoot ==
  made /\ Settled /\ variant = "BytesMap" /\ len = 3 /\ Stored = client.keys /\ dep > len

====
